---- MODULE Spec2Model ----
(***************************************************************************)
(* Model of the FaceAttendance decision engines.                           *)
(*                                                                         *)
(*   - EmbeddingService.find_best_match (backend/utils/embeddings.py) on   *)
(*     top of face_recognition.face_distance, which is either the dlib     *)
(*     based library or the development stand-in shipped with the backend  *)
(*     (backend/face_recognition_mock.py).                                 *)
(*   - LivenessDetector.check_liveness (liveness_service).                 *)
(*                                                                         *)
(* Numbers are fixed point.  Distances, tolerances and match confidences   *)
(* are in thousandths (1000 = 1.0).  A distance is the Euclidean norm      *)
(* rounded up to the next thousandth, which keeps every comparison         *)
(* "distance <= t" exact for a threshold t given in thousandths.           *)
(* Liveness scores: the Laplacian variance is in units of 1, the skin      *)
(* ratio and the moire ratio are in thousandths, the weighted confidence   *)
(* is in units of 1/100000 and is reported in thousandths after round().   *)
(***************************************************************************)
EXTENDS Integers, Sequences, FiniteSets, TLC

VARIABLES
    backend,            \* what "import face_recognition" resolved to
    known_encodings,    \* find_best_match argument: ordered dict, as a sequence of [id, enc]
    unknown_encoding,   \* find_best_match argument: the query vector
    tolerance,          \* find_best_match argument
    match_pc,           \* "ready" before the call, "done" after it
    match_outcome,      \* how the call ended: [kind |-> "return", value |-> dict] or [kind |-> "raise"]
    frame,              \* check_liveness argument: the decoded request image
    live_pc,            \* "ready" before the call, "done" after it
    live_result,        \* the dict check_liveness returned
    embeddings_cache,   \* EmbeddingService.embeddings_cache: class id -> enrolled set (local tier)
    firestore,          \* the "embeddings" collection: class id -> stored document (durable tier)
    recognition_threshold, \* RecognitionService.recognition_threshold, in thousandths
    liveness_enabled,   \* LIVENESS_ENABLED, read from the environment at start-up
    last,               \* the last operation served: its request, what it touched, its answer
    num_jitters,        \* EmbeddingService.num_jitters
    face_detection_model, \* EmbeddingService.face_detection_model
    inflight,           \* the requests suspended at an await, each with what it holds
    eye_history,        \* LivenessDetector.eye_history, in thousandths
    ear_log             \* every value detect_blink has appended, oldest first

vars == <<backend, known_encodings, unknown_encoding, tolerance, match_pc,
          match_outcome, frame, live_pc, live_result,
          embeddings_cache, firestore, recognition_threshold, liveness_enabled, last,
          num_jitters, face_detection_model, inflight, eye_history, ear_log>>

matchVars == <<backend, known_encodings, unknown_encoding, tolerance, match_pc, match_outcome>>
liveVars == <<frame, live_pc, live_result>>
sysVars == <<embeddings_cache, firestore, recognition_threshold, liveness_enabled, last>>
auxVars == <<num_jitters, face_detection_model, inflight, eye_history, ear_log>>

(***************************************************************************)
(* Bounds of the model.                                                    *)
(***************************************************************************)
MaxCoord == 3       \* a vector's first component is one of 0, 0.3, ..., 0.3 * MaxCoord
MaxMembers == 2     \* an enrolled set has at most this many members
MaxLap == 4         \* Laplacian variances are 0, 25, ..., 25 * MaxLap, and 15 and 49
MaxRatio == 5       \* ratios are the multiples of 1/MaxRatio in [0,1], and 0.299, 0.3
MaxEyes == 2        \* the eye cascade reports 0..MaxEyes regions

\* Length of a signature vector (128 in the deployed extractor).
Dim == 2

None == "None"

Min2(a, b) == IF a <= b THEN a ELSE b

(***************************************************************************)
(* Input spaces.                                                           *)
(***************************************************************************)
\* The first component of a vector moves in steps of 0.3, the others are 0 or 0.5.
Coords == {300 * i : i \in 0..MaxCoord}

OtherCoords == {0, 500}

VectorsOfLen(n) ==
    {v \in [1..n -> Coords \cup OtherCoords] :
        v[1] \in Coords /\ \A i \in 2..n : v[i] \in OtherCoords}

\* Signature vectors as the extractor produces them.
Signatures == VectorsOfLen(Dim)

\* Query vectors, including vectors of a wrong length.
Queries == UNION {VectorsOfLen(n) : n \in 1..(Dim + 1)}

StudentId(i) == <<"s1", "s2", "s3", "s4">>[i]

\* Enrolled sets: dicts in insertion order, ids distinct.
EnrolledSets ==
    UNION {{[i \in 1..n |-> [id |-> StudentId(i), enc |-> f[i]]] : f \in [1..n -> Signatures]}
           : n \in 0..MaxMembers}

Tolerances == {250, 500, 600, 1000}

Backends == {"library", "mock"}

(***************************************************************************)
(* numpy arithmetic used by face_distance.                                 *)
(***************************************************************************)
RECURSIVE SqrtSearch(_, _, _)
SqrtSearch(lo, hi, m) ==
    IF lo = hi THEN lo
    ELSE LET mid == (lo + hi) \div 2
         IN  IF mid * mid >= m THEN SqrtSearch(lo, mid, m) ELSE SqrtSearch(mid + 1, hi, m)

\* The least r with r * r >= m: a square root rounded up.
CeilSqrt(m) == SqrtSearch(0, 4096, m)

\* numpy broadcasting of two 1-d shapes: equal lengths, or one of them of length 1.
Broadcastable(a, b) == Len(a) = Len(b) \/ Len(a) = 1 \/ Len(b) = 1

BroadcastLen(a, b) == IF Len(a) >= Len(b) THEN Len(a) ELSE Len(b)

At(v, i) == IF Len(v) = 1 THEN v[1] ELSE v[i]

RECURSIVE SumSq(_, _, _)
SumSq(a, b, n) ==
    IF n = 0 THEN 0
    ELSE (At(a, n) - At(b, n)) * (At(a, n) - At(b, n)) + SumSq(a, b, n - 1)

\* np.linalg.norm(a - b) for broadcastable a and b.
Norm(a, b) == CeilSqrt(SumSq(a, b, BroadcastLen(a, b)))

(***************************************************************************)
(* face_recognition.face_distance, the two implementations.                *)
(* A call either returns a list or raises: [ok, val].                      *)
(***************************************************************************)
\* The library: np.linalg.norm(face_encodings - face_to_compare, axis=1).
\* The subtraction of the whole matrix raises on incompatible shapes.
LibraryFaceDistance(encodings, q) ==
    IF Len(encodings) = 0 THEN [ok |-> TRUE, val |-> <<>>]
    ELSE IF \A i \in 1..Len(encodings) : Broadcastable(encodings[i], q)
         THEN [ok |-> TRUE, val |-> [i \in 1..Len(encodings) |-> Norm(encodings[i], q)]]
         ELSE [ok |-> FALSE, val |-> <<>>]

\* The stand-in: one distance per encoding, an exception becomes 1.0 and a
\* distance above 1.0 is clamped to 1.0.
MockOneDistance(enc, q) ==
    IF Broadcastable(enc, q) THEN Min2(Norm(enc, q), 1000) ELSE 1000

MockFaceDistance(encodings, q) ==
    [ok |-> TRUE, val |-> [i \in 1..Len(encodings) |-> MockOneDistance(encodings[i], q)]]

\* EmbeddingService.face_distance: any exception is printed and [] returned.
face_distance(b, encodings, q) ==
    LET r == IF b = "mock" THEN MockFaceDistance(encodings, q)
             ELSE LibraryFaceDistance(encodings, q)
    IN  IF r.ok THEN r.val ELSE <<>>

(***************************************************************************)
(* EmbeddingService.find_best_match.                                       *)
(***************************************************************************)
\* np.argmin of the last-occurrence kind (a tie goes to the later member).
ArgMinLast(d) ==
    CHOOSE i \in 1..Len(d) : \A j \in 1..Len(d) : d[i] < d[j] \/ (d[i] = d[j] /\ i >= j)

\* np.argmin: the index of the first occurrence of the minimum.
ArgMin(d) ==
    CHOOSE i \in 1..Len(d) : \A j \in 1..Len(d) : d[i] < d[j] \/ (d[i] = d[j] /\ i <= j)

\* confidence clamped at 0.
ConfidenceClamped(best_distance) == IF best_distance > 1000 THEN 0 ELSE 1000 - best_distance

\* confidence = 1.0 - best_distance
Confidence(best_distance) == 1000 - best_distance

\* an inverted comparison.
IsMatchInverted(best_distance, tol) == best_distance >= tol

\* is_match = best_distance <= tolerance
IsMatch(best_distance, tol) == best_distance <= tol

\* The confidence floor lowered by 0.1.
MinConfidenceLowered == 500 - 100

min_confidence_threshold == 500

EmptyResult == [matched |-> FALSE, student_id |-> None, confidence |-> 0]

\* The single-gate policy: any candidate within tolerance is a match.
DecideSingleGate(id, best_distance, confidence, tol) ==
    IF IsMatch(best_distance, tol)
    THEN [matched |-> TRUE, student_id |-> id, confidence |-> confidence,
          distance |-> best_distance]
    ELSE [matched |-> FALSE, student_id |-> id, confidence |-> confidence,
          distance |-> best_distance, reason |-> "Distance exceeds tolerance"]

\* The gates in the other order: the confidence floor first.
DecideFloorFirst(id, best_distance, confidence, tol) ==
    IF confidence < min_confidence_threshold
    THEN [matched |-> FALSE, student_id |-> id, confidence |-> confidence,
          distance |-> best_distance, reason |-> "Low confidence"]
    ELSE IF IsMatch(best_distance, tol)
    THEN [matched |-> TRUE, student_id |-> id, confidence |-> confidence,
          distance |-> best_distance]
    ELSE [matched |-> FALSE, student_id |-> id, confidence |-> confidence,
          distance |-> best_distance, reason |-> "Distance exceeds tolerance"]

\* The three returns of the decision, lines 186-213: tolerance gate first,
\* then the confidence floor.
Decide(id, best_distance, confidence, tol) ==
    IF IsMatch(best_distance, tol)
    THEN IF confidence >= min_confidence_threshold
         THEN [matched |-> TRUE, student_id |-> id, confidence |-> confidence,
               distance |-> best_distance]
         ELSE [matched |-> FALSE, student_id |-> id, confidence |-> confidence,
               distance |-> best_distance, reason |-> "Low confidence"]
    ELSE [matched |-> FALSE, student_id |-> id, confidence |-> confidence,
          distance |-> best_distance, reason |-> "Distance exceeds tolerance"]

\* find_best_match without its empty-set guard and without its handler:
\* np.argmin of an empty list raises to the caller.
FindBestMatchUnguarded(b, known, q, tol) ==
    LET distances == face_distance(b, [i \in 1..Len(known) |-> known[i].enc], q)
    IN  IF Len(distances) = 0
        THEN [kind |-> "raise"]
        ELSE LET best_index == ArgMin(distances)
                 best_distance == distances[best_index]
             IN  [kind |-> "return",
                  value |-> Decide(known[best_index].id, best_distance,
                                   Confidence(best_distance), tol)]

\* find_best_match.  Every exception inside is caught by the handler at
\* lines 215-217, so the call always returns.
FindBestMatch(b, known, q, tol) ==
    IF Len(known) = 0
    THEN [kind |-> "return", value |-> EmptyResult]
    ELSE LET student_ids == [i \in 1..Len(known) |-> known[i].id]
             encodings == [i \in 1..Len(known) |-> known[i].enc]
             distances == face_distance(b, encodings, q)
         IN  IF Len(distances) = 0
             THEN \* np.argmin([]) raises ValueError, caught at line 215
                  [kind |-> "return", value |-> EmptyResult]
             ELSE LET best_index == ArgMin(distances)
                      best_distance == distances[best_index]
                      best_student_id == student_ids[best_index]
                      confidence == Confidence(best_distance)
                  IN  [kind |-> "return",
                       value |-> Decide(best_student_id, best_distance, confidence, tol)]

(***************************************************************************)
(* LivenessDetector.check_liveness.                                        *)
(* A frame is described by what the image routines compute from it:        *)
(* whether PIL can load it, whether the face cascade finds a region, and,  *)
(* for the crop of the largest region, the variance of its Laplacian, its  *)
(* skin-pixel ratio, its high-frequency energy ratio and the number of     *)
(* regions the eye cascade finds in it.                                    *)
(***************************************************************************)
LapValues == {25 * i : i \in 0..MaxLap} \cup {15, 49}

Ratios == {(1000 * i) \div MaxRatio : i \in 0..MaxRatio} \cup {299, 300}

Frames == [loadable : BOOLEAN, face : BOOLEAN, lap : LapValues, skin : Ratios,
           moire : Ratios, eyes : 0..MaxEyes]

TEXTURE_THRESHOLD == 15
QUALITY_THRESHOLD == 50
COLOR_SCORE_THRESHOLD == 300
MOIRE_THRESHOLD == 300

\* cv2.Laplacian(gray, cv2.CV_64F).var() of the crop
_calculate_texture_score(f) == f.lap

\* A sharpness score taken from another measurement of the crop.
BlurScoreIndependent(f) == f.moire

\* the same expression on the same crop
_calculate_blur_score(f) == f.lap

_calculate_color_score(f) == f.skin

_detect_moire_pattern(f) == f.moire

_detect_eyes(f) == f.eyes

BoolToInt(b) == IF b THEN 1 ELSE 0

\* Lines 359-363: the five checks.
Checks(f) ==
    [texture_passed |-> _calculate_texture_score(f) >= TEXTURE_THRESHOLD,
     quality_passed |-> _calculate_blur_score(f) >= QUALITY_THRESHOLD,
     color_passed |-> _calculate_color_score(f) >= COLOR_SCORE_THRESHOLD,
     eyes_detected |-> _detect_eyes(f) >= 1,
     moire_low |-> _detect_moire_pattern(f) < MOIRE_THRESHOLD]

\* Lines 366-372: sum of the five booleans.
ChecksPassed(f) ==
    LET c == Checks(f)
    IN  BoolToInt(c.texture_passed) + BoolToInt(c.quality_passed) + BoolToInt(c.color_passed)
        + BoolToInt(c.eyes_detected) + BoolToInt(c.moire_low)

\* Lines 375-380: the weighted confidence, in units of 1/100000.
\*   0.25 * min(texture / 50, 1) + 0.20 * min(blur / 100, 1) + 0.20 * color
\*   + 0.20 * eyes + 0.15 * (1 - min(2 * moire, 1))
WeightedConfidence(f) ==
    Min2(500 * _calculate_texture_score(f), 25000)
    + Min2(200 * _calculate_blur_score(f), 20000)
    + 20 * _calculate_color_score(f)
    + 20000 * BoolToInt(_detect_eyes(f) >= 1)
    + 15 * (1000 - Min2(2 * _detect_moire_pattern(f), 1000))

\* round(confidence, 3): from 1/100000 to thousandths, ties to even.
Round3(c) ==
    LET q == c \div 100
        r == c % 100
    IN  IF r > 50 \/ (r = 50 /\ q % 2 = 1) THEN q + 1 ELSE q

\* Either gate alone.
IsLiveEither(checks_passed, confidence) == checks_passed >= 3 \/ confidence >= 50000

\* Line 384: is_live = checks_passed >= 3 and confidence >= 0.5
IsLive(checks_passed, confidence) == checks_passed >= 3 /\ confidence >= 50000

\* Lines 386-404.  The scores are reported with round(.., 2), round(.., 3)
\* and round(.., 4); the values of the model are exact at those precisions.
LiveReport(f) ==
    [is_live |-> IsLive(ChecksPassed(f), WeightedConfidence(f)),
     confidence |-> Round3(WeightedConfidence(f)),
     checks |-> Checks(f),
     scores |-> [texture |-> _calculate_texture_score(f),
                 quality |-> _calculate_blur_score(f),
                 color |-> _calculate_color_score(f),
                 moire |-> _detect_moire_pattern(f)],
     checks_passed |-> ChecksPassed(f),
     total_checks |-> 5]

\* check_liveness that goes on to the metrics when no region was found.
CheckLivenessNoFaceGuard(f) ==
    IF ~f.loadable
    THEN [is_live |-> FALSE, confidence |-> 0, error |-> "Failed to load image"]
    ELSE LiveReport(f)

CheckLiveness(f) ==
    IF ~f.loadable
    THEN [is_live |-> FALSE, confidence |-> 0, error |-> "Failed to load image"]
    ELSE IF ~f.face
    THEN [is_live |-> FALSE, confidence |-> 0, error |-> "No face detected"]
    ELSE LiveReport(f)

(***************************************************************************)
(* The state machines.                                                     *)
(***************************************************************************)
NoOutcome == [kind |-> "none"]

IdleFrame == [loadable |-> FALSE, face |-> FALSE, lap |-> 0, skin |-> 0, moire |-> 0, eyes |-> 0]

NoLiveResult == [pending |-> TRUE]

MatchIdle ==
    /\ backend = "library"
    /\ known_encodings = <<>>
    /\ unknown_encoding = <<>>
    /\ tolerance = 600
    /\ match_pc = "idle"
    /\ match_outcome = NoOutcome

LiveIdle ==
    /\ frame = IdleFrame
    /\ live_pc = "idle"
    /\ live_result = NoLiveResult

\* A python dict with no keys, as a function with an empty domain.
EmptyDict == [k \in {} |-> <<>>]

NoOperation == [op |-> "none"]

\* The settings and the detector as their constructors leave them, and no
\* request suspended.
AuxIdle ==
    /\ num_jitters = 10
    /\ face_detection_model = "cnn"
    /\ inflight = {}
    /\ eye_history = <<>>
    /\ ear_log = <<>>

SysIdle ==
    /\ embeddings_cache = EmptyDict
    /\ firestore = EmptyDict
    /\ recognition_threshold = 600
    /\ liveness_enabled = TRUE
    /\ last = NoOperation
    /\ AuxIdle

\* One call of find_best_match on arbitrary arguments.
InitMatch ==
    /\ backend \in Backends
    /\ known_encodings \in EnrolledSets
    /\ unknown_encoding \in Queries
    /\ tolerance \in Tolerances
    /\ match_pc = "ready"
    /\ match_outcome = NoOutcome
    /\ LiveIdle
    /\ SysIdle

CallFindBestMatch ==
    /\ match_pc = "ready"
    /\ match_outcome' = FindBestMatch(backend, known_encodings, unknown_encoding, tolerance)
    /\ match_pc' = "done"
    /\ UNCHANGED <<backend, known_encodings, unknown_encoding, tolerance, liveVars, sysVars, auxVars>>

NextMatch == CallFindBestMatch

SpecMatch == InitMatch /\ [][NextMatch]_vars

\* One call of check_liveness on an arbitrary frame.
InitLive ==
    /\ frame \in Frames
    /\ live_pc = "ready"
    /\ live_result = NoLiveResult
    /\ MatchIdle
    /\ SysIdle

CallCheckLiveness ==
    /\ live_pc = "ready"
    /\ live_result' = CheckLiveness(frame)
    /\ live_pc' = "done"
    /\ UNCHANGED <<frame, matchVars, sysVars, auxVars>>

NextLive == CallCheckLiveness

SpecLive == InitLive /\ [][NextLive]_vars

(***************************************************************************)
(* Properties of find_best_match (SpecMatch).                              *)
(***************************************************************************)
MatchDone == match_pc = "done"

Returned == match_outcome.kind = "return"

Res == match_outcome.value

\* The query is a signature vector of the extractor's length.
WellFormed == Len(unknown_encoding) = Dim

NonEmpty == Len(known_encodings) > 0

\* The distances between the query and the enrolled vectors, in the set's
\* iteration order, as the distance function in use measures them.
Distances ==
    face_distance(backend, [i \in 1..Len(known_encodings) |-> known_encodings[i].enc],
                  unknown_encoding)

\* The least element of a non-empty list, and the first index that holds it.
MinOf(ds) == CHOOSE d \in {ds[i] : i \in 1..Len(ds)} : \A j \in 1..Len(ds) : d <= ds[j]

FirstIndexOf(ds, d) == CHOOSE i \in 1..Len(ds) : ds[i] = d /\ \A j \in 1..(i - 1) : ds[j] # d

MinDistance == MinOf(Distances)

FirstAtMin == LET ds == Distances IN FirstIndexOf(ds, MinOf(ds))

HasField(r, name) == name \in DOMAIN r

\* C1: on a non-empty enrolled set the result is matched exactly when the
\* minimum distance d satisfies d <= tolerance and 1 - d >= 0.5; otherwise it
\* is unmatched.
C1_MatchedIffBothGates ==
    (MatchDone /\ NonEmpty /\ WellFormed) =>
        /\ Returned
        /\ LET d == MinDistance
           IN  Res.matched <=> (d <= tolerance /\ 1000 - d >= 500)

\* C1 witness: a candidate within the tolerance is rejected by the confidence floor.
C1_Witness ==
    /\ MatchDone /\ NonEmpty /\ WellFormed
    /\ MinDistance <= tolerance /\ 1000 - MinDistance < 500
    /\ ~Res.matched

\* C2: on an empty enrolled set the call returns exactly
\* {matched: false, student_id: None, confidence: 0.0} and raises nothing.
C2_EmptySetResult ==
    (MatchDone /\ ~NonEmpty) =>
        match_outcome = [kind |-> "return",
                         value |-> [matched |-> FALSE, student_id |-> None, confidence |-> 0]]

\* C2 witness: a call on an empty set has returned, here for a query of a wrong length.
C2_Witness ==
    /\ MatchDone /\ ~NonEmpty /\ ~WellFormed
    /\ Returned /\ ~Res.matched

\* C3: every returned result has its confidence within [0,1], also when the
\* best distance is above 1.
C3_ConfidenceInUnitInterval ==
    (MatchDone /\ Returned /\ WellFormed) => (Res.confidence >= 0 /\ Res.confidence <= 1000)

\* C4: whenever a candidate is reported, matched or not, the reported
\* confidence is 1 minus the reported distance.
C4_ConfidenceIsOneMinusDistance ==
    (MatchDone /\ Returned /\ Res.student_id # None) =>
        /\ HasField(Res, "distance")
        /\ Res.confidence = 1000 - Res.distance

\* C4 witness: a candidate is reported at a distance above 1.
C4_Witness ==
    /\ MatchDone /\ Returned /\ WellFormed /\ Res.student_id # None
    /\ Res.distance > 1000

\* C5: a result matched at a tolerance is matched, with the same member, at
\* every larger tolerance.
C5_MonotoneInTolerance ==
    (MatchDone /\ Returned /\ Res.matched) =>
        \A tol2 \in Tolerances :
            tol2 >= tolerance =>
                LET r2 == FindBestMatch(backend, known_encodings, unknown_encoding, tol2).value
                IN  r2.matched /\ r2.student_id = Res.student_id

\* C5 witness: a match at the smallest tolerance, with larger ones to compare with.
C5_Witness ==
    /\ MatchDone /\ Returned /\ Res.matched
    /\ \E tol2 \in Tolerances : tol2 > tolerance
    /\ MinDistance = tolerance

\* C6: on a non-empty enrolled set the reported member, matched or not, is the
\* first member in iteration order whose distance is the minimum.
C6_FirstMinimumWins ==
    (MatchDone /\ NonEmpty /\ WellFormed) =>
        /\ Returned
        /\ Res.student_id = known_encodings[FirstAtMin].id

\* C6 witness: two members tie at the minimum and the first one is reported.
C6_Witness ==
    /\ MatchDone /\ WellFormed /\ Len(known_encodings) >= 2
    /\ Distances[1] = Distances[2]
    /\ known_encodings[1].enc # known_encodings[2].enc
    /\ Res.student_id = known_encodings[1].id

\* C7: the gates are evaluated in order.  A best distance above the tolerance
\* gives reason "Distance exceeds tolerance" whatever the confidence; the reason
\* is "Low confidence" exactly when the distance is within the tolerance and
\* the confidence is below 0.5; a matched result has no reason.
C7_GateOrder ==
    (MatchDone /\ NonEmpty /\ WellFormed) =>
        /\ Returned
        /\ LET d == MinDistance
           IN  /\ d > tolerance =>
                      (~Res.matched /\ HasField(Res, "reason")
                       /\ Res.reason = "Distance exceeds tolerance")
               /\ (HasField(Res, "reason") /\ Res.reason = "Low confidence")
                      <=> (d <= tolerance /\ 1000 - d < 500)
        /\ Res.matched => ~HasField(Res, "reason")

\* C7 witness: both gates fail and the tolerance gate gives the reason.
C7_Witness ==
    /\ MatchDone /\ NonEmpty /\ WellFormed
    /\ MinDistance > tolerance /\ 1000 - MinDistance < 500
    /\ Res.reason = "Distance exceeds tolerance"

\* C8: a query whose length differs from the enrolled vectors' makes the call
\* fail with an error that reaches the caller, never an ordinary result.
C8_DimensionMismatchRaises ==
    (MatchDone /\ NonEmpty /\ ~WellFormed) => match_outcome.kind = "raise"

(***************************************************************************)
(* Properties of check_liveness (SpecLive).                                *)
(***************************************************************************)
LiveDone == live_pc = "done"

FaceFound == frame.loadable /\ frame.face

\* Frames with a detected face: exactly three checks pass and the weighted
\* confidence stays below 0.5.
ThreeChecksLowConfidence(f) ==
    /\ f.loadable /\ f.face
    /\ ChecksPassed(f) = 3
    /\ WeightedConfidence(f) < 50000

\* Frames with a detected face: the weighted confidence reaches 0.5 with only
\* two checks passed.
TwoChecksHighConfidence(f) ==
    /\ f.loadable /\ f.face
    /\ ChecksPassed(f) = 2
    /\ WeightedConfidence(f) >= 50000

NeitherGateSuffices ==
    /\ \E f \in Frames : ThreeChecksLowConfidence(f) /\ ~CheckLiveness(f).is_live
    /\ \E f \in Frames : TwoChecksHighConfidence(f) /\ ~CheckLiveness(f).is_live

C10_NoFaceNotLive ==
    (LiveDone /\ frame.loadable /\ ~frame.face) =>
        /\ live_result.is_live = FALSE
        /\ live_result.confidence = 0
        /\ ~HasField(live_result, "scores")
        /\ ~HasField(live_result, "checks")
        /\ ~HasField(live_result, "checks_passed")

\* C10 witness: a frame without a face whose other content would pass every check.
C10_Witness ==
    /\ LiveDone /\ frame.loadable /\ ~frame.face
    /\ ChecksPassed(frame) = 5 /\ WeightedConfidence(frame) >= 50000
    /\ live_result.error = "No face detected"

(***************************************************************************)
(* The enrolment data the service works on.                               *)
(***************************************************************************)
\* Number of students on the roster of class "c1".
MaxStudents == 3

\* Class "c0" exists and has no students.
Classes == {"c0", "c1", "c2"}

\* How a student's photo field reads: an http(s) URL, a storage path, an
\* inline "data:image/...;base64," URL, or the empty string.
PhotoKinds == <<"http", "path", "data", "none">>

PhotoKind(i) == PhotoKinds[((i - 1) % 4) + 1]

\* The signature the face on student i's photo encodes to.
SigOf(i) == <<300 * ((i - 1) % (MaxCoord + 1)), 0>>

RosterName(c, i) == IF c = "c1" THEN StudentId(((i - 1) % 4) + 1) ELSE "t1"

\* The students array of the class document, in stored order.
Roster(c) ==
    [i \in 1..(IF c = "c1" THEN MaxStudents ELSE IF c = "c2" THEN 1 ELSE 0) |->
        [id |-> RosterName(c, i), photo |-> PhotoKind(i), sig |-> SigOf(i)]]

\* What the outside world answers for one student during one training run:
\* "ok" the photo's bytes are obtainable and show a face, "noface" they are
\* obtainable and show none, "fail" the fetch or the storage lookup fails.
\* For an inline photo the bytes are in the field itself, so only their
\* content varies; storage never holds a blob of that name.
PhotoOutcomes(kind) ==
    CASE kind = "http" -> {"ok", "noface", "fail"}
      [] kind = "path" -> {"ok", "noface", "fail"}
      [] kind = "data" -> {"ok", "noface"}
      [] OTHER -> {"nophoto"}

TrainEnvs(c) ==
    {e \in [1..Len(Roster(c)) -> {"ok", "noface", "fail", "nophoto"}] :
        \A i \in 1..Len(Roster(c)) : e[i] \in PhotoOutcomes(Roster(c)[i].photo)}

NoneImage == [some |-> FALSE]

ImageBytes(shows_face, sig) == [some |-> TRUE, face |-> shows_face, sig |-> sig]

(***************************************************************************)
(* The two tiers of the signature cache.                                   *)
(***************************************************************************)
\* dict.get(key, {}) on a dict of enrolled sets.
DictGet(d, k) == IF k \in DOMAIN d THEN d[k] ELSE <<>>

DictSet(d, k, v) == [x \in (DOMAIN d) \cup {k} |-> IF x = k THEN v ELSE d[x]]

\* ndarray.tolist() and np.array(list): a stored vector is a list, not an array.
tolist(enc) == [list |-> enc]

np_array(l) == l.list

\* A save that keeps the entries of the previous set whose ids are not in
\* the new one.
SaveMerging(cache, class_id, embeddings) ==
    LET old == DictGet(cache, class_id)
        kept == SelectSeq(old, LAMBDA x : \A i \in 1..Len(embeddings) : embeddings[i].id # x.id)
    IN  DictSet(cache, class_id, kept \o embeddings)

\* EmbeddingService.save_class_embeddings
save_class_embeddings(cache, class_id, embeddings) == DictSet(cache, class_id, embeddings)

\* EmbeddingService.load_class_embeddings
load_class_embeddings(cache, class_id) == DictGet(cache, class_id)

\* save_embeddings that creates the class's document and never overwrites
\* an existing one.
SaveEmbeddingsCreateOnly(store, class_id, embeddings, db_ok) ==
    IF ~db_ok
    THEN [kind |-> "raise", store |-> store]
    ELSE IF class_id \in DOMAIN store
    THEN [kind |-> "return", store |-> store]
    ELSE [kind |-> "return",
          store |-> DictSet(store, class_id,
                       [embeddings |-> [i \in 1..Len(embeddings) |->
                                           [id |-> embeddings[i].id,
                                            enc |-> tolist(embeddings[i].enc)]],
                        class_id |-> class_id])]
\* FirebaseService.save_embeddings: the document written, or a raise when
\* the database is unavailable.
save_embeddings(store, class_id, embeddings, db_ok) ==
    IF ~db_ok
    THEN [kind |-> "raise", store |-> store]
    ELSE [kind |-> "return",
          store |-> DictSet(store, class_id,
                       [embeddings |-> [i \in 1..Len(embeddings) |->
                                           [id |-> embeddings[i].id,
                                            enc |-> tolist(embeddings[i].enc)]],
                        class_id |-> class_id])]

\* FirebaseService.load_embeddings: every failure reads as an empty dict.
load_embeddings(store, class_id, db_ok) ==
    IF ~db_ok THEN <<>>
    ELSE IF class_id \notin DOMAIN store THEN <<>>
    ELSE store[class_id].embeddings

\* A read-through that returns the durable set without copying it into the
\* local tier.
LoadFromFirebaseNoCopy(cache, store, class_id, db_ok) ==
    LET firebase_embeddings == load_embeddings(store, class_id, db_ok)
        converted == [i \in 1..Len(firebase_embeddings) |->
                         [id |-> firebase_embeddings[i].id,
                          enc |-> np_array(firebase_embeddings[i].enc)]]
    IN  [value |-> converted, cache |-> cache, durable_reads |-> 1, local_hit |-> FALSE]

\* A read-through that records a miss of the durable tier as an empty
\* entry of the local tier.
LoadFromFirebaseCachingMiss(cache, store, class_id, db_ok) ==
    LET firebase_embeddings == load_embeddings(store, class_id, db_ok)
        converted == [i \in 1..Len(firebase_embeddings) |->
                         [id |-> firebase_embeddings[i].id,
                          enc |-> np_array(firebase_embeddings[i].enc)]]
    IN  [value |-> converted, cache |-> save_class_embeddings(cache, class_id, converted),
         durable_reads |-> 1, local_hit |-> FALSE]

\* The second half of RecognitionService.load_class_embeddings: read the
\* durable tier, turn the stored lists back into arrays and copy a hit into
\* the local tier.  The stored map comes back in stored order here; python
\* compares dicts without regard to order, and so do the properties below.
LoadFromFirebase(cache, store, class_id, db_ok) ==
    LET firebase_embeddings == load_embeddings(store, class_id, db_ok)
        converted == [i \in 1..Len(firebase_embeddings) |->
                         [id |-> firebase_embeddings[i].id,
                          enc |-> np_array(firebase_embeddings[i].enc)]]
    IN  IF firebase_embeddings # <<>>
        THEN [value |-> converted, cache |-> save_class_embeddings(cache, class_id, converted),
              durable_reads |-> 1, local_hit |-> FALSE]
        ELSE [value |-> <<>>, cache |-> cache, durable_reads |-> 1, local_hit |-> FALSE]

\* A lookup that asks the durable tier first and the local tier only when
\* the durable tier has nothing.
LoadDurableFirst(cache, store, class_id, db_ok) ==
    LET durable == LoadFromFirebase(cache, store, class_id, db_ok)
    IN  IF durable.value # <<>>
        THEN durable
        ELSE [value |-> load_class_embeddings(cache, class_id), cache |-> cache,
              durable_reads |-> 1, local_hit |-> TRUE]

\* RecognitionService.load_class_embeddings: local tier first, then the
\* durable tier; durable_reads counts the calls of firebase.load_embeddings.
LoadClassEmbeddings(cache, store, class_id, db_ok) ==
    LET embeddings == load_class_embeddings(cache, class_id)
    IN  IF embeddings # <<>>
        THEN [value |-> embeddings, cache |-> cache, durable_reads |-> 0, local_hit |-> TRUE]
        ELSE LoadFromFirebase(cache, store, class_id, db_ok)

(***************************************************************************)
(* Training: POST /train and RecognitionService.train_class_embeddings.    *)
(***************************************************************************)
\* FirebaseService.get_class_students
get_class_students(class_id, db_ok) ==
    IF ~db_ok \/ class_id \notin Classes
    THEN [kind |-> "raise"]
    ELSE [kind |-> "return", value |-> Roster(class_id)]

\* FirebaseService.download_image: the bytes, or None on any failure.
download_image(student, outcome) ==
    IF outcome = "ok" THEN ImageBytes(TRUE, student.sig)
    ELSE IF outcome = "noface" THEN ImageBytes(FALSE, student.sig)
    ELSE NoneImage

\* FirebaseService.get_student_photo_url: a signed URL when the path names
\* an existing blob.  An inline data URL contains '/', is looked up as a
\* blob name and is never found.
get_student_photo_url(student, outcome) ==
    CASE student.photo = "http" -> TRUE
      [] student.photo = "path" -> outcome # "fail"
      [] OTHER -> FALSE

\* One entry of download_tasks in train_class_embeddings, after gather.
AcquireImage(student, outcome) ==
    CASE student.photo = "none" -> NoneImage
      [] student.photo = "http" -> download_image(student, outcome)
      [] OTHER -> IF get_student_photo_url(student, outcome)
                  THEN download_image(student, outcome)
                  ELSE NoneImage

\* The None of extract_face_encoding, as the vector of no components.
NoEncoding == <<>>

\* EmbeddingService.extract_face_encoding: None when no face is found.
extract_face_encoding(image) ==
    IF image.some /\ image.face THEN image.sig ELSE NoEncoding

\* Whether generate_class_embeddings_sync stores an entry for this student.
\* image_data is bytes or None here, never a str, so the base64 branch of
\* the loop is not taken.
Enrols(student, image) ==
    /\ student.photo # "none"
    /\ image.some
    /\ extract_face_encoding(image) # NoEncoding

\* A loop that gives up at the first student it cannot enrol and returns
\* the entries made so far.
GenerateUntilFirstFailure(students, images) ==
    LET Gen[i \in 0..Len(students)] ==
            IF i = 0 THEN <<>>
            ELSE IF Len(Gen[i - 1]) = i - 1 /\ Enrols(students[i], images[i])
                 THEN Append(Gen[i - 1], [id |-> students[i].id,
                                          enc |-> extract_face_encoding(images[i])])
                 ELSE Gen[i - 1]
    IN  Gen[Len(students)]

\* EmbeddingService.generate_class_embeddings_sync: every student is tried,
\* in roster order; a student that fails is skipped.
generate_class_embeddings_sync(students, images) ==
    LET Gen[i \in 0..Len(students)] ==
            IF i = 0 THEN <<>>
            ELSE IF Enrols(students[i], images[i])
                 THEN Append(Gen[i - 1], [id |-> students[i].id,
                                          enc |-> extract_face_encoding(images[i])])
                 ELSE Gen[i - 1]
    IN  Gen[Len(students)]

\* Training that writes the durable tier first and the local tier only
\* when that write went through.
TrainDurableFirst(cache, store, class_id, students, env, save_ok) ==
    LET images == [i \in 1..Len(students) |-> AcquireImage(students[i], env[i])]
        embeddings == generate_class_embeddings_sync(students, images)
        saved == save_embeddings(store, class_id, embeddings, save_ok)
    IN  IF embeddings # <<>>
        THEN [kind |-> saved.kind, value |-> Len(embeddings), embeddings |-> embeddings,
              cache |-> IF saved.kind = "return"
                        THEN save_class_embeddings(cache, class_id, embeddings)
                        ELSE cache,
              store |-> saved.store, durable_writes |-> 1, images |-> images]
        ELSE [kind |-> "return", value |-> 0, embeddings |-> embeddings,
              cache |-> cache, store |-> store, durable_writes |-> 0, images |-> images]

\* Training that saves whatever set it computed, the empty one included.
TrainSavingEmpty(cache, store, class_id, students, env, save_ok) ==
    LET images == [i \in 1..Len(students) |-> AcquireImage(students[i], env[i])]
        embeddings == generate_class_embeddings_sync(students, images)
        saved == save_embeddings(store, class_id, embeddings, save_ok)
    IN  [kind |-> saved.kind, value |-> Len(embeddings), embeddings |-> embeddings,
         cache |-> save_class_embeddings(cache, class_id, embeddings),
         store |-> saved.store, durable_writes |-> 1, images |-> images]

\* RecognitionService.train_class_embeddings: the local tier is written
\* first, the durable tier second, and a failed durable write propagates.
train_class_embeddings(cache, store, class_id, students, env, save_ok) ==
    LET images == [i \in 1..Len(students) |-> AcquireImage(students[i], env[i])]
        embeddings == generate_class_embeddings_sync(students, images)
        saved == save_embeddings(store, class_id, embeddings, save_ok)
    IN  IF embeddings # <<>>
        THEN [kind |-> saved.kind, value |-> Len(embeddings), embeddings |-> embeddings,
              cache |-> save_class_embeddings(cache, class_id, embeddings),
              store |-> saved.store, durable_writes |-> 1, images |-> images]
        ELSE [kind |-> "return", value |-> 0, embeddings |-> embeddings,
              cache |-> cache, store |-> store, durable_writes |-> 0, images |-> images]

TrainFailed == [status |-> 500, detail |-> "Training failed"]

TrainResponse(n) == [status |-> 200, success |-> TRUE, studentsProcessed |-> n]

\* POST /train.  The 404 raised for an empty roster is caught by the
\* handler's own "except Exception" and leaves as a 500, like every failure.
train_class(cache, store, class_id, students_ok, env, save_ok) ==
    LET students == get_class_students(class_id, students_ok)
        trained == train_class_embeddings(cache, store, class_id, students.value, env, save_ok)
    IN  IF students.kind = "raise" \/ students.value = <<>>
        THEN [response |-> TrainFailed, cache |-> cache, store |-> store,
              embeddings |-> <<>>, durable_writes |-> 0, fetched |-> FALSE,
              images |-> <<>>]
        ELSE [response |-> IF trained.kind = "raise" THEN TrainFailed
                           ELSE TrainResponse(trained.value),
              cache |-> trained.cache, store |-> trained.store,
              embeddings |-> trained.embeddings,
              durable_writes |-> trained.durable_writes, fetched |-> TRUE,
              images |-> trained.images]

(***************************************************************************)
(* Recognition: POST /recognize, the liveness gate in front of             *)
(* RecognitionService.recognize_face.                                      *)
(***************************************************************************)
\* The name on the roster for a matched id, "Unknown" when it is not there.
StudentName(students, student_id) ==
    IF \E i \in 1..Len(students) : students[i].id = student_id
    THEN student_id
    ELSE "Unknown"

\* recognize_face calling find_best_match without its tolerance argument,
\* which then takes the default of 0.6.
RecognizeFaceDefaultTolerance(b, cache, store, class_id, image, threshold, load_ok, students_ok) ==
    LET loaded == LoadClassEmbeddings(cache, store, class_id, load_ok)
        known_embeddings == loaded.value
        unknown == extract_face_encoding(image)
        match_result == FindBestMatch(b, known_embeddings, unknown, 600)
        students == get_class_students(class_id, students_ok)
        result ==
            IF known_embeddings = <<>>
            THEN [matched |-> FALSE, error |-> "No trained embeddings found"]
            ELSE IF unknown = NoEncoding
            THEN [matched |-> FALSE, error |-> "No face detected in the provided image"]
            ELSE IF match_result.kind = "raise"
            THEN [matched |-> FALSE, error |-> "Recognition failed"]
            ELSE IF match_result.value.matched
            THEN IF students.kind = "raise"
                 THEN [matched |-> FALSE, error |-> "Recognition failed"]
                 ELSE [matched |-> TRUE,
                       studentId |-> match_result.value.student_id,
                       studentName |-> StudentName(students.value,
                                                   match_result.value.student_id),
                       confidence |-> match_result.value.confidence]
            ELSE [matched |-> FALSE, confidence |-> match_result.value.confidence,
                  message |-> "Face not recognized"]
    IN  [result |-> result, cache |-> loaded.cache]
\* RecognitionService.recognize_face: the dict it returns and the local
\* tier it leaves behind.  Every exception ends as a matched=False dict.
recognize_face_service(b, cache, store, class_id, image, threshold, load_ok, students_ok) ==
    LET loaded == LoadClassEmbeddings(cache, store, class_id, load_ok)
        known_embeddings == loaded.value
        unknown == extract_face_encoding(image)
        match_result == FindBestMatch(b, known_embeddings, unknown, threshold)
        students == get_class_students(class_id, students_ok)
        result ==
            IF known_embeddings = <<>>
            THEN [matched |-> FALSE, error |-> "No trained embeddings found"]
            ELSE IF unknown = NoEncoding
            THEN [matched |-> FALSE, error |-> "No face detected in the provided image"]
            ELSE IF match_result.kind = "raise"
            THEN [matched |-> FALSE, error |-> "Recognition failed"]
            ELSE IF match_result.value.matched
            THEN IF students.kind = "raise"
                 THEN [matched |-> FALSE, error |-> "Recognition failed"]
                 ELSE [matched |-> TRUE,
                       studentId |-> match_result.value.student_id,
                       studentName |-> StudentName(students.value,
                                                   match_result.value.student_id),
                       confidence |-> match_result.value.confidence]
            ELSE [matched |-> FALSE, confidence |-> match_result.value.confidence,
                  message |-> "Face not recognized"]
    IN  [result |-> result, cache |-> loaded.cache]

\* How the liveness service stands when the backend calls it.
LivenessStates == {"up", "crash", "down", "timeout"}

\* POST /liveness/check as the backend's client sees it: a reply with a
\* status and a JSON body, or an exception raised by the client.
liveness_check(image, service) ==
    CASE service = "up" ->
            [kind |-> "reply", status_code |-> 200, json |-> CheckLiveness(image.frame)]
      [] service = "crash" ->
            [kind |-> "reply", status_code |-> 500,
             json |-> [error |-> "error", is_live |-> FALSE, confidence |-> 0]]
      [] service = "down" -> [kind |-> "ConnectError"]
      [] OTHER -> [kind |-> "Exception"]

\* liveness_result = None, before and without an answer of status 200.
NoLivenessResult == [some |-> FALSE]

\* dict.get(key, default)
Get(d, key, default) == IF key \in DOMAIN d THEN d[key] ELSE default

\* No dict from RecognitionService.recognize_face: it was not called.
NoResult == [none |-> TRUE]

BadRequest == [status |-> 400, detail |-> "Invalid base64 image data"]

SpoofResponse(liveness_result) ==
    [status |-> 200, matched |-> FALSE, studentId |-> None, studentName |-> None,
     confidence |-> 0, is_live |-> FALSE,
     liveness_confidence |-> Get(liveness_result, "confidence", 0)]

RecognizeResponse(result, liveness_result) ==
    [status |-> 200, matched |-> result.matched,
     studentId |-> Get(result, "studentId", None),
     studentName |-> Get(result, "studentName", None),
     confidence |-> Get(result, "confidence", 0),
     is_live |-> IF liveness_result.some
                 THEN Get(liveness_result.json, "is_live", None) ELSE None,
     liveness_confidence |-> IF liveness_result.some
                             THEN Get(liveness_result.json, "confidence", None) ELSE None]

\* POST /recognize that goes on to recognition whatever the verdict was.
RecognizeIgnoringVerdict(b, cache, store, enabled, class_id, image, threshold, service, load_ok, students_ok) ==
    LET answer == liveness_check(image, service)
        liveness_result == IF enabled /\ answer.kind = "reply" /\ answer.status_code = 200
                           THEN [some |-> TRUE, json |-> answer.json]
                           ELSE NoLivenessResult
        recognized == recognize_face_service(b, cache, store, class_id, image.bytes,
                                             threshold, load_ok, students_ok)
    IN  IF ~image.b64ok
        THEN [response |-> BadRequest, invoked |-> FALSE, cache |-> cache,
              liveness_result |-> NoLivenessResult, result |-> NoResult]
        ELSE [response |-> RecognizeResponse(recognized.result, liveness_result),
              invoked |-> TRUE, cache |-> recognized.cache,
              liveness_result |-> liveness_result, result |-> recognized.result]

\* POST /recognize.  liveness_result stays None unless the service answered
\* with status 200; a 200 answer that is not live ends the request before
\* recognition; in every other case recognition goes ahead.
Recognize(b, cache, store, enabled, class_id, image, threshold, service, load_ok, students_ok) ==
    LET answer == liveness_check(image, service)
        liveness_result == IF enabled /\ answer.kind = "reply" /\ answer.status_code = 200
                           THEN [some |-> TRUE, json |-> answer.json]
                           ELSE NoLivenessResult
        recognized == recognize_face_service(b, cache, store, class_id, image.bytes,
                                             threshold, load_ok, students_ok)
    IN  IF ~image.b64ok
        THEN [response |-> BadRequest, invoked |-> FALSE, cache |-> cache,
              liveness_result |-> NoLivenessResult, result |-> NoResult]
        ELSE IF liveness_result.some /\ ~Get(liveness_result.json, "is_live", FALSE)
        THEN [response |-> SpoofResponse(liveness_result.json), invoked |-> FALSE,
              cache |-> cache, liveness_result |-> liveness_result, result |-> NoResult]
        ELSE [response |-> RecognizeResponse(recognized.result, liveness_result),
              invoked |-> TRUE, cache |-> recognized.cache,
              liveness_result |-> liveness_result, result |-> recognized.result]

(***************************************************************************)
(* The service as a state machine.                                         *)
(***************************************************************************)
\* The part of an operation a later operation is compared with.
Summary(l) ==
    [op |-> l.op,
     class_id |-> Get(l, "class_id", None),
     embeddings |-> Get(l, "embeddings", <<>>)]

\* A fresh process with no cache file and nothing stored yet.
Init ==
    /\ MatchIdle
    /\ LiveIdle
    /\ embeddings_cache = EmptyDict
    /\ firestore = EmptyDict
    /\ recognition_threshold = 600
    /\ liveness_enabled = TRUE
    /\ last = NoOperation
    /\ AuxIdle

\* What a training request leaves in "last".
TrainRecord(class_id, env, save_ok, r) ==
    [op |-> "train", class_id |-> class_id, env |-> env, save_ok |-> save_ok,
     response |-> r.response, embeddings |-> r.embeddings, fetched |-> r.fetched,
     durable_writes |-> r.durable_writes,
     acquired |-> {i \in 1..Len(r.images) : r.images[i].some},
     replaced |-> DictGet(embeddings_cache, class_id)]

\* POST /train for a class, under one answer of the outside world for each
\* student's photo and for the durable write.
HandleTrain ==
    \E class_id \in Classes, save_ok \in BOOLEAN :
        \E env \in TrainEnvs(class_id) :
            LET r == train_class(embeddings_cache, firestore, class_id, TRUE, env, save_ok)
            IN  /\ embeddings_cache' = r.cache
                /\ firestore' = r.store
                /\ last' = TrainRecord(class_id, env, save_ok, r)
                /\ UNCHANGED <<matchVars, liveVars, recognition_threshold, liveness_enabled, auxVars>>

\* POST /train when the roster cannot be read: no photo is asked for.
HandleTrainNoRoster ==
    \E class_id \in Classes :
        LET env == [i \in 1..Len(Roster(class_id)) |-> "fail"]
            r == train_class(embeddings_cache, firestore, class_id, FALSE, env, TRUE)
        IN  /\ embeddings_cache' = r.cache
            /\ firestore' = r.store
            /\ last' = TrainRecord(class_id, env, TRUE, r)
            /\ UNCHANGED <<matchVars, liveVars, recognition_threshold, liveness_enabled, auxVars>>

\* One call of RecognitionService.load_class_embeddings.
GetEmbeddings ==
    \E class_id \in Classes, db_ok \in BOOLEAN :
        LET r == LoadClassEmbeddings(embeddings_cache, firestore, class_id, db_ok)
        IN  /\ embeddings_cache' = r.cache
            /\ last' = [op |-> "get", class_id |-> class_id, db_ok |-> db_ok,
                        value |-> r.value, durable_reads |-> r.durable_reads,
                        local_hit |-> r.local_hit, prev |-> Summary(last)]
            /\ UNCHANGED <<matchVars, liveVars, firestore, recognition_threshold,
                           liveness_enabled, auxVars>>

\* The process starts again where no cache file exists: _load_cache leaves
\* the local tier empty.
ColdStart ==
    /\ embeddings_cache' = EmptyDict
    /\ last' = [op |-> "start"]
    /\ UNCHANGED <<matchVars, liveVars, firestore, recognition_threshold, liveness_enabled, auxVars>>

Next == HandleTrain \/ HandleTrainNoRoster \/ GetEmbeddings \/ ColdStart

Spec == Init /\ [][Next]_vars

\* The tiers after one training run on a fresh service, and the same after
\* a cold start.
TrainedTiers ==
    LET runs == UNION {{train_class(EmptyDict, EmptyDict, c, TRUE, env, ok) :
                           env \in TrainEnvs(c), ok \in BOOLEAN} : c \in Classes}
    IN  {[cache |-> r.cache, store |-> r.store] : r \in runs}
        \cup {[cache |-> EmptyDict, store |-> r.store] : r \in runs}

\* Three request frames: one the liveness checks accept, one with a face
\* that they reject, one in which no face region is found.
RequestFrames ==
    {CHOOSE f \in Frames : f.loadable /\ f.face /\ CheckLiveness(f).is_live,
     CHOOSE f \in Frames : f.loadable /\ f.face /\ ~CheckLiveness(f).is_live,
     CHOOSE f \in Frames : f.loadable /\ ~f.face}

\* What the encoder finds in a request image: no face, the face of the
\* first student, a face far from every student, or a face at distance
\* 1.0 from the first student.
RequestBytes == {ImageBytes(FALSE, SigOf(1)), ImageBytes(TRUE, SigOf(1)),
                 ImageBytes(TRUE, <<300 * MaxCoord, 500>>), ImageBytes(TRUE, <<600, 800>>)}

RequestImages ==
    {[b64ok |-> FALSE, frame |-> IdleFrame, bytes |-> NoneImage]}
    \cup [b64ok : {TRUE}, frame : RequestFrames, bytes : RequestBytes]

\* One POST /recognize against tiers left by earlier training.
InitRecognize ==
    /\ backend \in Backends
    /\ known_encodings = <<>>
    /\ unknown_encoding = <<>>
    /\ tolerance = 600
    /\ match_pc = "idle"
    /\ match_outcome = NoOutcome
    /\ LiveIdle
    /\ \E t \in TrainedTiers : embeddings_cache = t.cache /\ firestore = t.store
    /\ recognition_threshold = 600
    /\ liveness_enabled \in BOOLEAN
    /\ last = NoOperation
    /\ AuxIdle

HandleRecognize ==
    /\ last = NoOperation
    /\ \E class_id \in Classes, image \in RequestImages, service \in LivenessStates,
          load_ok \in BOOLEAN, students_ok \in BOOLEAN :
        LET r == Recognize(backend, embeddings_cache, firestore, liveness_enabled,
                           class_id, image, recognition_threshold, service,
                           load_ok, students_ok)
        IN  /\ embeddings_cache' = r.cache
            /\ last' = [op |-> "recognize", class_id |-> class_id, image |-> image,
                        service |-> service, response |-> r.response,
                        invoked |-> r.invoked, liveness_result |-> r.liveness_result,
                        result |-> r.result]
            /\ UNCHANGED <<matchVars, liveVars, firestore, recognition_threshold,
                           liveness_enabled, auxVars>>

NextRecognize == HandleRecognize

SpecRecognize == InitRecognize /\ [][NextRecognize]_vars

(***************************************************************************)
(* Configuration: POST /config/threshold, /config/model, /config/jitters.  *)
(* Each handler validates inside a try block whose only clause is          *)
(* "except Exception", which answers 500 with the text of what was raised. *)
(***************************************************************************)
\* Values clients send: thousandths for the threshold.
ThresholdInputs == {0 - 100, 0, 250, 600, 1000, 1100}
ModelInputs == {"cnn", "hog", "dlib"}
JitterInputs == {0 - 1, 0, 1, 10, 20, 21}

ThresholdInRange(threshold) == 0 <= threshold /\ threshold <= 1000
ModelAllowed(model) == model \in {"cnn", "hog"}
JittersInRange(jitters) == 1 <= jitters /\ jitters <= 20

\* except Exception as e: raise HTTPException(status_code=500, detail=str(e))
except_Exception(raised) == [status |-> 500, detail |-> raised]

\* RecognitionService.set_recognition_threshold: assigns a value in
\* [0.0, 1.0] and raises ValueError otherwise.
set_recognition_threshold(current, threshold) ==
    IF ThresholdInRange(threshold)
    THEN [kind |-> "return", recognition_threshold |-> threshold]
    ELSE [kind |-> "raise", recognition_threshold |-> current]

UpdateThresholdUnchecked(current, threshold) ==
    [response |-> [status |-> 200, success |-> TRUE, value |-> threshold],
     recognition_threshold |-> threshold]
update_threshold(current, threshold) ==
    LET set == set_recognition_threshold(current, threshold)
    IN  IF ~ThresholdInRange(threshold)
        THEN [response |-> except_Exception("400: Threshold must be between 0.0 and 1.0"),
              recognition_threshold |-> current]
        ELSE IF set.kind = "raise"
        THEN [response |-> except_Exception("Threshold must be between 0.0 and 1.0"),
              recognition_threshold |-> set.recognition_threshold]
        ELSE [response |-> [status |-> 200, success |-> TRUE, value |-> threshold],
              recognition_threshold |-> set.recognition_threshold]

update_model(current, model) ==
    IF ~ModelAllowed(model)
    THEN [response |-> except_Exception("400: Model must be 'cnn' or 'hog'"),
          face_detection_model |-> current]
    ELSE [response |-> [status |-> 200, success |-> TRUE, value |-> model],
          face_detection_model |-> model]

update_jitters(current, jitters) ==
    IF ~JittersInRange(jitters)
    THEN [response |-> except_Exception("400: Jitters must be between 1 and 20"),
          num_jitters |-> current]
    ELSE [response |-> [status |-> 200, success |-> TRUE, value |-> jitters],
          num_jitters |-> jitters]

ConfigRecord(key, value, response) ==
    [op |-> "config", key |-> key, value |-> value, response |-> response]

UpdateThreshold ==
    \E threshold \in ThresholdInputs :
        LET r == update_threshold(recognition_threshold, threshold)
        IN  /\ recognition_threshold' = r.recognition_threshold
            /\ last' = ConfigRecord("threshold", threshold, r.response)
            /\ UNCHANGED <<matchVars, liveVars, embeddings_cache, firestore,
                           liveness_enabled, auxVars>>

UpdateModel ==
    \E model \in ModelInputs :
        LET r == update_model(face_detection_model, model)
        IN  /\ face_detection_model' = r.face_detection_model
            /\ last' = ConfigRecord("model", model, r.response)
            /\ UNCHANGED <<matchVars, liveVars, embeddings_cache, firestore,
                           recognition_threshold, liveness_enabled, num_jitters,
                           inflight, eye_history, ear_log>>

UpdateJitters ==
    \E jitters \in JitterInputs :
        LET r == update_jitters(num_jitters, jitters)
        IN  /\ num_jitters' = r.num_jitters
            /\ last' = ConfigRecord("jitters", jitters, r.response)
            /\ UNCHANGED <<matchVars, liveVars, embeddings_cache, firestore,
                           recognition_threshold, liveness_enabled,
                           face_detection_model, inflight, eye_history, ear_log>>

\* POST /train for a class whose roster is empty.
HandleTrainNoStudents ==
    \E class_id \in {c \in Classes : Roster(c) = <<>>}, env \in {<<>>}, save_ok \in BOOLEAN :
        LET r == train_class(embeddings_cache, firestore, class_id, TRUE, env, save_ok)
        IN  /\ embeddings_cache' = r.cache
            /\ firestore' = r.store
            /\ last' = TrainRecord(class_id, env, save_ok, r)
            /\ UNCHANGED <<matchVars, liveVars, recognition_threshold,
                           liveness_enabled, auxVars>>

NextConfig == UpdateThreshold \/ UpdateModel \/ UpdateJitters \/ HandleTrainNoStudents

SpecConfig == Init /\ [][NextConfig]_vars

(***************************************************************************)
(* A threshold write while POST /recognize is suspended.  The handler      *)
(* yields to the event loop once, at "await client.post" to the liveness   *)
(* service (main.py:189); everything after the reply, the read of          *)
(* recognition_threshold and the synchronous find_best_match included,     *)
(* runs without another suspension.                                        *)
(***************************************************************************)
MaxInflight == 2

\* Requests in flight form a multiset: equal requests are numbered.
Copies(bag, q) == {x \in bag : [x EXCEPT !.dup = 1] = [q EXCEPT !.dup = 1]}
Suspend(bag, q) == bag \cup {[q EXCEPT !.dup = Cardinality(Copies(bag, q)) + 1]}
Resumable(bag) == {x \in bag : x.dup = Cardinality(Copies(bag, x))}

\* The first class with every photo usable, trained into both tiers.
EnrolledTiers ==
    LET env == CHOOSE e \in TrainEnvs("c1") :
                   \A i \in DOMAIN e : e[i] \in {"ok", "nophoto"}
        r == train_class(EmptyDict, EmptyDict, "c1", TRUE, env, TRUE)
    IN  [cache |-> r.cache, store |-> r.store]

\* A frame the liveness checks accept, showing the first student's face or
\* a face at distance 0.5 from it.
ToleranceImages ==
    [b64ok : {TRUE},
     frame : {CHOOSE f \in Frames : f.loadable /\ f.face /\ CheckLiveness(f).is_live},
     bytes : {ImageBytes(TRUE, SigOf(1)), ImageBytes(TRUE, <<0, 500>>)}]

InitTolerance ==
    /\ backend \in Backends
    /\ known_encodings = <<>>
    /\ unknown_encoding = <<>>
    /\ tolerance = 600
    /\ match_pc = "idle"
    /\ match_outcome = NoOutcome
    /\ LiveIdle
    /\ embeddings_cache = EnrolledTiers.cache
    /\ firestore = EnrolledTiers.store
    /\ recognition_threshold = 600
    /\ liveness_enabled = TRUE
    /\ last = NoOperation
    /\ AuxIdle

\* POST /recognize up to the await of the liveness reply.
RecognizeBegin ==
    /\ liveness_enabled
    /\ Cardinality(inflight) < MaxInflight
    /\ \E image \in ToleranceImages :
        inflight' = Suspend(inflight, [op |-> "recognize", class_id |-> "c1",
                                       image |-> image,
                                       threshold |-> recognition_threshold,
                                       dup |-> 1])
    /\ UNCHANGED <<matchVars, liveVars, sysVars, num_jitters,
                   face_detection_model, eye_history, ear_log>>

\* POST /recognize from the liveness reply to the response.
RecognizeResume ==
    \E q \in Resumable(inflight), service \in {"up", "down"} :
        LET r == Recognize(backend, embeddings_cache, firestore, liveness_enabled,
                           q.class_id, q.image, recognition_threshold, service,
                           TRUE, TRUE)
        IN  /\ q.op = "recognize"
            /\ inflight' = inflight \ {q}
            /\ embeddings_cache' = r.cache
            /\ last' = [op |-> "recognize", class_id |-> q.class_id,
                        image |-> q.image, service |-> service,
                        response |-> r.response, invoked |-> r.invoked,
                        liveness_result |-> r.liveness_result, result |-> r.result,
                        threshold_at_begin |-> q.threshold,
                        threshold_at_resume |-> recognition_threshold]
            /\ UNCHANGED <<matchVars, liveVars, firestore, recognition_threshold,
                           liveness_enabled, num_jitters, face_detection_model,
                           eye_history, ear_log>>

NextTolerance == UpdateThreshold \/ RecognizeBegin \/ RecognizeResume

SpecTolerance == InitTolerance /\ [][NextTolerance]_vars

(***************************************************************************)
(* The liveness detector across calls: detect_blink, check_liveness and    *)
(* analyze_frame on one LivenessDetector.  The Flask server handles        *)
(* requests on threads, so between detect_blink's append and its trim      *)
(* other calls may run.                                                    *)
(***************************************************************************)
MaxBlinks == 11

\* self.max_history and EAR_THRESHOLD.
max_history == 10
EAR_THRESHOLD == 250

\* _calculate_eye_aspect_ratio: a ratio in thousandths, or None (NoEar)
\* when no landmarks are found.
NoEar == 0 - 1
EarValues == {200, 300}

\* if len(self.eye_history) > self.max_history: self.eye_history.pop(0)
TrimNever(history) == history
Trim(history) == IF Len(history) > max_history THEN Tail(history) ELSE history

detect_blink(f, ear) ==
    IF ~f.loadable
    THEN [blink_detected |-> FALSE, error |-> "Failed to load image"]
    ELSE IF ~f.face
    THEN [blink_detected |-> FALSE, error |-> "No face detected"]
    ELSE IF ear # NoEar
    THEN [blink_detected |-> ear < EAR_THRESHOLD, eye_aspect_ratio |-> ear,
          threshold |-> EAR_THRESHOLD, eyes_open |-> ear >= EAR_THRESHOLD]
    ELSE [blink_detected |-> _detect_eyes(f) < 2, eyes_visible |-> _detect_eyes(f),
          method |-> "eye_cascade_fallback"]

analyze_frame(f, ear) ==
    IF ~f.loadable
    THEN [error |-> "Failed to load image"]
    ELSE IF ~f.face
    THEN [face_detected |-> FALSE, error |-> "No face detected in image"]
    ELSE [face_detected |-> TRUE,
          metrics |-> [texture_score |-> _calculate_texture_score(f),
                       blur_score |-> _calculate_blur_score(f),
                       color_score |-> _calculate_color_score(f),
                       moire_score |-> _detect_moire_pattern(f),
                       eyes_detected |-> _detect_eyes(f),
                       eye_aspect_ratio |-> ear]]

\* Two frames: one the liveness checks accept and one without a face.
DetectorFrames ==
    {CHOOSE f \in Frames : f.loadable /\ f.face /\ CheckLiveness(f).is_live,
     CHOOSE f \in Frames : f.loadable /\ ~f.face}

\* detect_blink up to and including self.eye_history.append(ear); a call
\* that finds no ratio returns at once.  What the call will return is
\* settled by then, since it depends on the frame and the ratio alone.
DetectBlinkAppend ==
    /\ Len(ear_log) < MaxBlinks
    /\ Cardinality(inflight) < MaxInflight
    /\ \E f \in DetectorFrames, ear \in EarValues \cup {NoEar} :
        /\ last' = [op |-> "blink", response |-> detect_blink(f, ear)]
        /\ IF f.loadable /\ f.face /\ ear # NoEar
           THEN /\ eye_history' = Append(eye_history, ear)
                /\ ear_log' = Append(ear_log, ear)
                /\ inflight' = Suspend(inflight, [op |-> "blink", dup |-> 1])
           ELSE UNCHANGED <<eye_history, ear_log, inflight>>
    /\ UNCHANGED <<matchVars, liveVars, embeddings_cache, firestore,
                   recognition_threshold, liveness_enabled, num_jitters,
                   face_detection_model>>

\* detect_blink from the length test to its return.
DetectBlinkTrim ==
    /\ \E q \in Resumable(inflight) :
        /\ q.op = "blink"
        /\ eye_history' = Trim(eye_history)
        /\ inflight' = inflight \ {q}
    /\ UNCHANGED <<matchVars, liveVars, embeddings_cache, firestore,
                   recognition_threshold, liveness_enabled, num_jitters,
                   face_detection_model, ear_log, last>>

CheckLivenessCall ==
    /\ \E f \in DetectorFrames :
        last' = [op |-> "check", frame |-> f, result |-> CheckLiveness(f)]
    /\ UNCHANGED <<matchVars, liveVars, embeddings_cache, firestore,
                   recognition_threshold, liveness_enabled, auxVars>>

AnalyzeFrameCall ==
    /\ \E f \in DetectorFrames, ear \in EarValues \cup {NoEar} :
        last' = [op |-> "analyze", frame |-> f, response |-> analyze_frame(f, ear)]
    /\ UNCHANGED <<matchVars, liveVars, embeddings_cache, firestore,
                   recognition_threshold, liveness_enabled, auxVars>>

NextDetector == DetectBlinkAppend \/ DetectBlinkTrim \/ CheckLivenessCall \/ AnalyzeFrameCall

SpecDetector == Init /\ [][NextDetector]_vars

(***************************************************************************)
(* Overlapping POST /train requests.  train_class_embeddings yields to     *)
(* the event loop once, at "await asyncio.gather" over the downloads       *)
(* (recognition.py:48); the encoding and both saves after it run without   *)
(* another suspension.  Every durable write goes through.                  *)
(***************************************************************************)
\* Photos that download and show a face, fail to download, or are absent.
OverlapEnvs(c) ==
    {env \in TrainEnvs(c) : \A i \in DOMAIN env : env[i] \in {"ok", "fail", "nophoto"}}

\* POST /train up to the await of the downloads.
TrainBegin ==
    /\ Cardinality(inflight) < MaxInflight
    /\ \E class_id \in {c \in Classes : Roster(c) # <<>>} :
        \E env \in OverlapEnvs(class_id) :
            inflight' = Suspend(inflight,
                            [op |-> "train", class_id |-> class_id, env |-> env,
                             dup |-> 1])
    /\ UNCHANGED <<matchVars, liveVars, sysVars, num_jitters,
                   face_detection_model, eye_history, ear_log>>

\* The request that has just completed was a train call for class_id that
\* left another train call for the same class suspended.
LeftBehind(class_id) ==
    /\ last.op = "train"
    /\ last.class_id = class_id
    /\ last.left_behind

\* POST /train from the downloaded images to the response.  The record of
\* the call notes whether it overlapped the train call completed just
\* before it.
TrainResume ==
    \E q \in Resumable(inflight) :
        LET r == train_class(embeddings_cache, firestore, q.class_id, TRUE, q.env, TRUE)
        IN  /\ q.op = "train"
            /\ inflight' = inflight \ {q}
            /\ embeddings_cache' = r.cache
            /\ firestore' = r.store
            /\ last' = [op |-> "train", class_id |-> q.class_id, env |-> q.env,
                        overlap |-> LeftBehind(q.class_id),
                        left_behind |-> \E x \in inflight \ {q} : x.class_id = q.class_id,
                        response |-> r.response]
            /\ UNCHANGED <<matchVars, liveVars, recognition_threshold,
                           liveness_enabled, num_jitters, face_detection_model,
                           eye_history, ear_log>>

\* RecognitionService.load_class_embeddings between training steps.
ReadEmbeddings ==
    \E class_id \in Classes, db_ok \in BOOLEAN :
        LET r == LoadClassEmbeddings(embeddings_cache, firestore, class_id, db_ok)
        IN  /\ embeddings_cache' = r.cache
            /\ last' = [op |-> "get", class_id |-> class_id, value |-> r.value]
            /\ UNCHANGED <<matchVars, liveVars, firestore, recognition_threshold,
                           liveness_enabled, auxVars>>

\* The process starts again with no request in flight.
Restart == inflight = {} /\ ColdStart

NextOverlap == TrainBegin \/ TrainResume \/ ReadEmbeddings \/ Restart

SpecOverlap == Init /\ [][NextOverlap]_vars

(***************************************************************************)
(* Properties of POST /recognize (SpecRecognize).                          *)
(***************************************************************************)
RecognizeDone == last.op = "recognize"

\* The liveness service answered with status 200 and a verdict of not live.
SpoofVerdict ==
    /\ RecognizeDone
    /\ last.liveness_result.some
    /\ ~Get(last.liveness_result.json, "is_live", FALSE)

\* The liveness service answered with status 200 and a verdict of live.
LiveVerdict ==
    /\ RecognizeDone
    /\ last.liveness_result.some
    /\ Get(last.liveness_result.json, "is_live", FALSE)

\* C11: when the liveness service answers a request with a verdict of not
\* live, RecognitionService.recognize_face is not invoked for that request
\* and the response says matched = false.
C11_SpoofIsNeverMatched ==
    SpoofVerdict => (~last.invoked /\ last.response.status = 200 /\ ~last.response.matched)

\* A spoof verdict on a request that recognition would have matched: the
\* class is trained, the image encodes to an enrolled signature.
C11_Witness ==
    /\ SpoofVerdict
    /\ ~last.invoked /\ ~last.response.matched
    /\ last.image.bytes = ImageBytes(TRUE, SigOf(1))
    /\ DictGet(embeddings_cache, last.class_id) # <<>>
    /\ DictGet(embeddings_cache, last.class_id)[1].enc = SigOf(1)

\* C12: with liveness checking enabled, recognition is invoked only after
\* a verdict of live was obtained for the same request; an unreachable
\* liveness service, an error or a status other than 200 never leads to
\* matched = true.  Stated on the responses with matched = true: each was
\* produced by a recognition that followed a verdict of live.
C12_NoMatchWithoutLiveVerdict ==
    (RecognizeDone /\ liveness_enabled /\ last.response.status = 200
        /\ last.response.matched)
    => (last.invoked /\ LiveVerdict)

(***************************************************************************)
(* Properties of the two-tier signature cache (Spec).                      *)
(***************************************************************************)
\* An enrolled set as the mapping it is, whatever the order of its entries.
AsDict(set) == {<<set[i].id, set[i].enc>> : i \in 1..Len(set)}

GetDone == last.op = "get"

\* The get follows immediately a training run that put a set for the same class.
PutThenGet ==
    /\ GetDone
    /\ last.prev.op = "train"
    /\ last.prev.class_id = last.class_id
    /\ last.prev.embeddings # <<>>

\* C13: a get that follows the put of an enrolled set S for the same class
\* returns a set equal to S, from the local tier, with no read of the
\* durable tier; whether the put's durable write went through or not.
C13_PutGetRoundTrip ==
    PutThenGet =>
        /\ AsDict(last.value) = AsDict(last.prev.embeddings)
        /\ last.local_hit
        /\ last.durable_reads = 0

C13_Witness ==
    /\ PutThenGet
    /\ Len(last.prev.embeddings) = 2
    /\ last.value = last.prev.embeddings
    /\ last.durable_reads = 0

\* The get missed the local tier and found a document in the durable tier.
ReadThrough ==
    /\ GetDone
    /\ ~last.local_hit
    /\ last.db_ok
    /\ last.class_id \in DOMAIN firestore

\* What a later get of the class returns, for either state of the database.
LaterGet(class_id, db_ok) ==
    LoadClassEmbeddings(embeddings_cache, firestore, class_id, db_ok)

\* C14: a get that misses the local tier and finds a set in the durable
\* tier returns that set, with the stored lists as arrays again, stores it
\* in the local tier, and a following get is served from the local tier
\* with no read of the durable tier.
C14_ReadThroughPopulatesLocal ==
    ReadThrough =>
        LET stored == firestore[last.class_id].embeddings
        IN  /\ last.durable_reads = 1
            /\ Len(last.value) = Len(stored)
            /\ \A i \in 1..Len(stored) :
                  /\ last.value[i].id = stored[i].id
                  /\ last.value[i].enc = stored[i].enc.list
            /\ DictGet(embeddings_cache, last.class_id) = last.value
            /\ \A db_ok \in BOOLEAN :
                  /\ LaterGet(last.class_id, db_ok).value = last.value
                  /\ LaterGet(last.class_id, db_ok).durable_reads = 0

C14_Witness ==
    /\ ReadThrough
    /\ last.prev.op = "start"
    /\ Len(last.value) = 2
    /\ embeddings_cache[last.class_id] = last.value

\* C15: a get for a class present in neither tier returns an empty set,
\* raises nothing and leaves both tiers as they were.
C15_TotalMissIsEmpty ==
    [][(/\ last'.op = "get"
        /\ last'.class_id \notin DOMAIN embeddings_cache
        /\ last'.class_id \notin DOMAIN firestore)
       => (/\ last'.value = <<>>
           /\ embeddings_cache' = embeddings_cache
           /\ firestore' = firestore)]_vars

C15_Witness ==
    /\ GetDone
    /\ last.db_ok
    /\ last.class_id \notin DOMAIN embeddings_cache
    /\ last.class_id \notin DOMAIN firestore
    /\ last.value = <<>>
    /\ last.durable_reads = 1
    /\ DOMAIN firestore # {}

TrainDone == last.op = "train"

\* A training run that computed a non-empty set and whose durable write failed.
FailedPut ==
    /\ TrainDone
    /\ last.embeddings # <<>>
    /\ ~last.save_ok

\* C16: when the durable write of a put fails the local write has still
\* happened: the local tier holds the set for the class and a following
\* get returns it.
C16_LocalWriteSurvivesDurableFailure ==
    FailedPut =>
        /\ DictGet(embeddings_cache, last.class_id) = last.embeddings
        /\ \A db_ok \in BOOLEAN : LaterGet(last.class_id, db_ok).value = last.embeddings

\* The durable tier kept an older, different set while the local tier took
\* the new one.
C16_Witness ==
    /\ FailedPut
    /\ embeddings_cache[last.class_id] = last.embeddings
    /\ last.class_id \in DOMAIN firestore
    /\ Len(firestore[last.class_id].embeddings) # Len(last.embeddings)

(***************************************************************************)
(* Properties of POST /train (Spec).                                       *)
(***************************************************************************)
\* The training run read its roster and went through the students.
TrainRan == TrainDone /\ last.fetched

TrainedRoster == Roster(last.class_id)

Ids(set) == {set[i].id : i \in 1..Len(set)}

\* C17: a durable-tier write failure during enrolment is not fatal: the
\* training request still completes and reports the count of enrolled
\* members; the failure is at most a warning.
C17_DurableFailureIsNotFatal ==
    (TrainRan /\ FailedPut) =>
        /\ last.response.status = 200
        /\ last.response.success
        /\ last.response.studentsProcessed = Len(last.embeddings)

\* The students of the run whose photo bytes were obtained and show a face.
Succeeded == {i \in last.acquired : last.env[i] = "ok"}

\* A run in which at least one student succeeds, with the durable tier
\* taking the write.
IsolationCase == TrainRan /\ last.save_ok /\ Succeeded # {}

\* C18: whatever the pattern of per-student acquisition and extraction
\* failures, as long as one student succeeds the training request does not
\* abort: it answers with success, the set stored for the class has exactly
\* the students whose acquisition and extraction both succeeded, each with
\* the signature of their photo, and the count returned is its size.
C18_FailureIsolation ==
    IsolationCase =>
        LET stored == DictGet(embeddings_cache, last.class_id)
        IN  /\ last.response.status = 200
            /\ last.response.success
            /\ Ids(stored) = {TrainedRoster[i].id : i \in Succeeded}
            /\ Len(stored) = Cardinality(Succeeded)
            /\ \A i \in Succeeded : <<TrainedRoster[i].id, TrainedRoster[i].sig>> \in AsDict(stored)
            /\ last.response.studentsProcessed = Cardinality(Succeeded)
            /\ last.embeddings = stored

\* The first student's fetch failed, a later student was enrolled.
C18_Witness ==
    /\ IsolationCase
    /\ last.env[1] = "fail"
    /\ Succeeded = {2}
    /\ last.response.studentsProcessed = 1
    /\ Ids(embeddings_cache[last.class_id]) = {TrainedRoster[2].id}

\* C19: a training run that ends with no student enrolled is reported to
\* the caller as a failure, not as a success.
C19_ZeroEnrolledIsFailure ==
    (TrainRan /\ last.embeddings = <<>>) =>
        ~(last.response.status = 200 /\ last.response.success)

\* C20: a student whose photo is an inline base64 data URL holding a face
\* is acquired by training and is in the set stored for the class; stated
\* on the runs that answer with success.
C20_InlinePhotoIsEnrolled ==
    (TrainRan /\ last.response.status = 200) =>
        \A i \in 1..Len(TrainedRoster) :
            (TrainedRoster[i].photo = "data" /\ last.env[i] = "ok") =>
                /\ i \in last.acquired
                /\ TrainedRoster[i].id \in Ids(DictGet(embeddings_cache, last.class_id))

C28_TextureEqualsSharpness ==
    (LiveDone /\ FaceFound) =>
        /\ _calculate_texture_score(frame) = _calculate_blur_score(frame)
        /\ live_result.scores.texture = live_result.scores.quality
        /\ live_result.checks.quality_passed => live_result.checks.texture_passed

C28_Witness ==
    /\ LiveDone /\ FaceFound
    /\ live_result.checks.quality_passed
    /\ live_result.checks.texture_passed
    /\ live_result.scores.quality >= QUALITY_THRESHOLD
    /\ live_result.scores.texture = live_result.scores.quality

(***************************************************************************)
(* What the caller of POST /recognize can tell apart (SpecRecognize).      *)
(***************************************************************************)
\* Recognition ran against a trained class and no enrolled student matched.
NoMemberMatched ==
    /\ RecognizeDone
    /\ last.invoked
    /\ Get(last.result, "message", None) = "Face not recognized"

\* The response the same request gets from a service on which the class
\* has no enrolled set in either tier.
UntrainedResponse ==
    Recognize(backend, EmptyDict, EmptyDict, liveness_enabled, last.class_id, last.image,
              recognition_threshold, last.service, TRUE, TRUE).response

\* C21: the response to a query against a class with no enrolled set can be
\* told from the response to a query against a trained class in which no
\* student matches.
C21_UntrainedIsDistinguishable ==
    NoMemberMatched => last.response # UntrainedResponse

(***************************************************************************)
(* Frame properties of training (Spec).                                    *)
(***************************************************************************)
\* The stored document as the enrolled set it encodes.
Decoded(doc) ==
    [i \in 1..Len(doc.embeddings) |->
        [id |-> doc.embeddings[i].id, enc |-> doc.embeddings[i].enc.list]]

\* C24: a put for a class replaces the class's entry wholesale, in the
\* local tier and, when the durable write goes through, in the durable
\* tier: the entry is exactly the new set, with no member kept from the
\* previous one; the entries of all other classes are as they were.
C24_PutReplacesOneEntry ==
    [][(last'.op = "train" /\ last'.embeddings # <<>>) =>
        LET c == last'.class_id
        IN  /\ embeddings_cache'[c] = last'.embeddings
            /\ DOMAIN embeddings_cache' = DOMAIN embeddings_cache \cup {c}
            /\ \A o \in DOMAIN embeddings_cache' \ {c} :
                  embeddings_cache'[o] = embeddings_cache[o]
            /\ last'.save_ok =>
                  /\ Decoded(firestore'[c]) = last'.embeddings
                  /\ DOMAIN firestore' = DOMAIN firestore \cup {c}
            /\ \A o \in DOMAIN firestore' \ {c} : firestore'[o] = firestore[o]]_vars

\* A set with s1 and s2 was replaced by a set with s2 alone while another
\* class had its own entry.
C24_Witness ==
    /\ TrainDone
    /\ last.save_ok
    /\ Ids(last.replaced) = {"s1", "s2"}
    /\ Ids(embeddings_cache[last.class_id]) = {"s2"}
    /\ Ids(Decoded(firestore[last.class_id])) = {"s2"}
    /\ \E o \in DOMAIN embeddings_cache : o # last.class_id

\* The answer of RecognitionService.recognize_face to the photo of the
\* student enrolled first in the class's local entry.
LaterQuery(class_id) ==
    recognize_face_service(backend, embeddings_cache, firestore, class_id,
                           ImageBytes(TRUE, embeddings_cache[class_id][1].enc),
                           recognition_threshold, TRUE, TRUE).result

\* C26: a training run whose resulting set is empty writes neither tier;
\* the set stored before stays in both, and a later query for the class is
\* matched against it (the tiers after the run being the tiers before it,
\* the later lookup and query are evaluated on them).
C26_EmptyTrainKeepsPreviousSet ==
    [][(last'.op = "train" /\ last'.embeddings = <<>>) =>
        /\ embeddings_cache' = embeddings_cache
        /\ firestore' = firestore
        /\ last'.durable_writes = 0
        /\ last'.class_id \in DOMAIN embeddings_cache =>
              /\ LaterGet(last'.class_id, TRUE).value = embeddings_cache[last'.class_id]
              /\ LaterQuery(last'.class_id).matched
              /\ LaterQuery(last'.class_id).studentId
                    = embeddings_cache[last'.class_id][1].id]_vars

C26_Witness ==
    /\ TrainRan
    /\ last.embeddings = <<>>
    /\ last.replaced # <<>>
    /\ embeddings_cache[last.class_id] = last.replaced
    /\ last.class_id \in DOMAIN firestore
    /\ Decoded(firestore[last.class_id]) = last.replaced
    /\ LaterQuery(last.class_id).matched

(***************************************************************************)
(* Properties of the configuration handlers (SpecConfig).                  *)
(***************************************************************************)
ConfigDone == last.op = "config"

\* The value of a configuration write is outside the range its handler allows.
OutOfRange(key, value) ==
    \/ key = "threshold" /\ ~ThresholdInRange(value)
    \/ key = "model" /\ ~ModelAllowed(value)
    \/ key = "jitters" /\ ~JittersInRange(value)

\* C22: after any sequence of configuration writes the match tolerance is
\* within [0, 1] and the extraction jitter is at least 1; a write whose
\* value is outside the allowed range is answered with an error status and
\* leaves the configuration as it was.
C22_ConfigStaysInRange ==
    [][/\ ThresholdInRange(recognition_threshold')
       /\ num_jitters' >= 1
       /\ (last'.op = "config" /\ OutOfRange(last'.key, last'.value)) =>
              /\ last'.response.status >= 400
              /\ recognition_threshold' = recognition_threshold
              /\ num_jitters' = num_jitters
              /\ face_detection_model' = face_detection_model]_vars

\* A threshold above 1.0 and a jitter count of 0 were both refused after
\* the configuration had been moved away from its defaults.
C22_Witness ==
    /\ ConfigDone
    /\ OutOfRange(last.key, last.value)
    /\ last.response.status >= 400
    /\ recognition_threshold = 250
    /\ num_jitters = 20

\* C30: a client-error rejection raised inside a handler reaches the caller
\* with the status it was raised with: 404 from /train for a class without
\* students, 400 from the configuration handlers for a value out of range.
C30_ClientErrorsKeepTheirStatus ==
    /\ (ConfigDone /\ OutOfRange(last.key, last.value)) => last.response.status = 400
    /\ (last.op = "train" /\ last.fetched = FALSE /\ Roster(last.class_id) = <<>>) =>
           last.response.status = 404

(***************************************************************************)
(* Properties of a recognition overlapping threshold writes                *)
(* (SpecTolerance).                                                        *)
(***************************************************************************)
\* A request that was suspended, then resumed and reached find_best_match.
Compared ==
    /\ last.op = "recognize"
    /\ last.invoked
    /\ "confidence" \in DOMAIN last.result

\* The outcome of the completed request is the one find_best_match gives
\* with tolerance tol for every comparison.
DecidedUnder(tol) ==
    LET m == FindBestMatch(backend, embeddings_cache[last.class_id],
                           extract_face_encoding(last.image.bytes), tol).value
    IN  /\ last.result.matched = m.matched
        /\ last.result.confidence = m.confidence
        /\ last.result.matched => last.result.studentId = m.student_id

\* C23: a recognize request that overlaps threshold writes is decided
\* against one tolerance for the whole find_best_match call: the value the
\* threshold had when the request arrived or the value it has when the
\* call is made, never a mix of values.
C23_OneToleranceForTheWholeCall ==
    Compared => \/ DecidedUnder(last.threshold_at_begin)
                \/ DecidedUnder(last.threshold_at_resume)

\* The threshold was lowered from 0.6 to 0.25 while a request for a face
\* at distance 0.5 was suspended; the request was decided under 0.25.
C23_Witness ==
    /\ Compared
    /\ last.threshold_at_begin = 600
    /\ last.threshold_at_resume = 250
    /\ ~last.result.matched
    /\ DecidedUnder(250)
    /\ ~DecidedUnder(600)

(***************************************************************************)
(* Properties of the detector across calls (SpecDetector).                 *)
(***************************************************************************)
\* The last n elements of a sequence (all of it when it is shorter).
LastN(s, n) == IF Len(s) <= n THEN s ELSE SubSeq(s, Len(s) - n + 1, Len(s))

\* No detect_blink call is between its append and its trim.
DetectorQuiet == inflight = {}

TiersAgree ==
    \A c \in DOMAIN embeddings_cache :
        /\ c \in DOMAIN firestore
        /\ Decoded(firestore[c]) = embeddings_cache[c]

\* C29: when no durable write fails, once every train and get operation
\* has completed (two train calls for one class that overlap in time
\* included) the two tiers hold the same enrolled set for every class the
\* local tier has an entry for.
C29_TiersAgreeWhenQuiet == inflight = {} => TiersAgree

\* Two train calls for the first class overlapped; the one that began
\* second, enrolling fewer students, finished last, and both tiers hold
\* its set.
C29_Witness ==
    /\ inflight = {}
    /\ last.op = "train"
    /\ last.class_id = "c1"
    /\ last.overlap
    /\ last.response.status = 200
    /\ last.response.studentsProcessed = 1
    /\ "c1" \in DOMAIN embeddings_cache
    /\ Ids(embeddings_cache["c1"]) = {"s2"}
    /\ Ids(Decoded(firestore["c1"])) = {"s2"}

=============================================================================
